---- MODULE Spec2Model ----
(***************************************************************************)
(* Model of elembedding.py: the line parser load_data, the batch sampler   *)
(* Generator, the training loop of main and the overlap / containment      *)
(* terms of ELModel.dis_loss and ELModel.nf2_loss.                         *)
(*                                                                         *)
(* A Python str is the sequence of its code points, so that Len, SubSeq    *)
(* and \o are len, slices and + of Python on every string; the literals of *)
(* the source are spelled out below with their text in a comment.  Embedding values are fixed-point integers, Scale units to 1.0,   *)
(* with embedding_size = 1 so that tf.norm is an absolute value.           *)
(***************************************************************************)
EXTENDS Integers, Sequences, FiniteSets, TLC

VARIABLES
    pc,             \* position of the process
    file,           \* the lines of --data-file (read so far, for the parser)
    classes,        \* load_data: dict identifier -> index
    relations,      \* load_data: dict identifier -> index
    data,           \* load_data: the five lists of tuples
    batch_size,     \* main: --batch-size
    epochs,         \* main: --epochs
    steps,          \* main: steps
    gen,            \* the Generator object: batch_size, steps, start
    epoch,          \* main: loop variable of range(epochs)
    batch,          \* enumerate index of the batch within the epoch
    batch_data,     \* shapes of the last batch yielded by Generator.next
    global_step,    \* number of optimizer.apply_gradients calls so far
    exports,        \* history of the pickles written, oldest first
    emb,            \* ELModel.cls_embeddings rows for c, d, e
    loss_out        \* result of the last loss call

vars == <<pc, file, classes, relations, data, batch_size, epochs, steps, gen,
          epoch, batch, batch_data, global_step, exports, emb, loss_out>>

parseVars == <<file, classes, relations, data>>
trainVars == <<batch_size, epochs, steps, gen, epoch, batch, batch_data,
               global_step, exports>>
lossVars == <<emb, loss_out>>

-----------------------------------------------------------------------------
(* Bounds *)

MaxLines == 4       \* lines fed to the parser
MaxRows == 2        \* rows per axiom group in a training file
MaxBatchSize == 2   \* values of --batch-size
MaxEpochs == 12     \* values of --epochs
MaxCoord == 2       \* centre coordinates range over -MaxCoord..MaxCoord
MaxRad == 3         \* radius components range over -MaxRad..MaxRad

-----------------------------------------------------------------------------
(* Python string primitives *)

\* the empty str
EmptyStr == <<>>

\* the code points str.strip() removes, those with str.isspace(): \t \n
\* \x0b \x0c \r, \x1c..\x1f, space, U+0085, U+00A0, U+1680, U+2000..U+200A,
\* U+2028, U+2029, U+202F, U+205F, U+3000
Whitespace ==
    (9..13) \cup (28..32) \cup {133, 160, 5760} \cup (8192..8202)
    \cup {8232, 8233, 8239, 8287, 12288}

\* the code point s[i-1] of Python
CharAt(s, i) == s[i]

Min(a, b) == IF a < b THEN a ELSE b
Max(a, b) == IF a > b THEN a ELSE b

\* normalisation of a slice bound of a string of length n
SliceIndex(i, n) == IF i < 0 THEN Max(n + i, 0) ELSE Min(i, n)

\* s[lo:hi]
PySlice(s, lo, hi) ==
    LET a == SliceIndex(lo, Len(s))
        b == SliceIndex(hi, Len(s))
    IN  IF b <= a THEN EmptyStr ELSE SubSeq(s, a + 1, b)

\* s[lo:]
PySliceFrom(s, lo) == PySlice(s, lo, Len(s))

RECURSIVE LStrip(_)
LStrip(s) ==
    IF Len(s) > 0 /\ CharAt(s, 1) \in Whitespace
    THEN LStrip(SubSeq(s, 2, Len(s)))
    ELSE s

RECURSIVE RStrip(_)
RStrip(s) ==
    IF Len(s) > 0 /\ CharAt(s, Len(s)) \in Whitespace
    THEN RStrip(SubSeq(s, 1, Len(s) - 1))
    ELSE s

\* s.strip()
Strip(s) == RStrip(LStrip(s))

\* s.startswith(p)
StartsWith(s, p) == Len(s) >= Len(p) /\ SubSeq(s, 1, Len(p)) = p

\* s.find(p) != -1
Contains(s, p) ==
    \E i \in 1..(Len(s) - Len(p) + 1) : SubSeq(s, i, i + Len(p) - 1) = p

\* the separator of line.split(' ')
SplitSep == 32

\* s.split(' '): cut at every single space, empty pieces kept
RECURSIVE SplitFrom(_, _, _)
SplitFrom(s, i, cur) ==
    IF i > Len(s) THEN <<cur>>
    ELSE IF CharAt(s, i) = SplitSep
         THEN <<cur>> \o SplitFrom(s, i + 1, EmptyStr)
    ELSE SplitFrom(s, i + 1, Append(cur, CharAt(s, i)))

Split(s) == SplitFrom(s, 1, EmptyStr)

-----------------------------------------------------------------------------
(* load_data *)

Groups == {"nf1", "nf2", "nf3", "nf4", "disjoint"}

EmptyDict == <<>>

EmptyData == [nf1 |-> <<>>, nf2 |-> <<>>, nf3 |-> <<>>, nf4 |-> <<>>,
              disjoint |-> <<>>]

\* the state of load_data before the first line; err is set when a line
\* raises IndexError
InitParse == [classes |-> EmptyDict, relations |-> EmptyDict,
              data |-> EmptyData, err |-> FALSE]

\* len(d) of a dict
DictLen(d) == Cardinality(DOMAIN d)

InternSkew(d, k) == IF k \in DOMAIN d THEN d ELSE d @@ (k :> DictLen(d) + 1)

\* if k not in d: d[k] = len(d)
Intern(d, k) == IF k \in DOMAIN d THEN d ELSE d @@ (k :> DictLen(d))

\* data[g].append(t)
AppendTo(dt, g, t) == [dt EXCEPT ![g] = Append(@, t)]

\* the line as the branches see it: line.strip()[11:-1]
Unwrap(raw) == PySlice(Strip(raw), 11, -1)

\* 'owl:Nothing'
StrOwlNothing ==
    <<111, 119, 108, 58, 78, 111, 116, 104, 105, 110, 103>>

\* 'ObjectIntersectionOf('
StrIntersectionOf ==
    <<79, 98, 106, 101, 99, 116, 73, 110, 116, 101, 114, 115, 101, 99, 116, 105, 111, 110, 79, 102, 40>>

\* 'ObjectSomeValuesFrom('
StrSomeValuesFromOpen ==
    <<79, 98, 106, 101, 99, 116, 83, 111, 109, 101, 86, 97, 108, 117, 101, 115, 70, 114, 111, 109, 40>>

\* 'ObjectSomeValuesFrom'
StrSomeValuesFrom ==
    <<79, 98, 106, 101, 99, 116, 83, 111, 109, 101, 86, 97, 108, 117, 101, 115, 70, 114, 111, 109>>

IsBottomNever(e) == FALSE

\* e == 'owl:Nothing'
IsBottom(e) == e = StrOwlNothing

\* branch line.startswith('ObjectIntersectionOf('): C and D SubClassOf E
ParseIntersection(st, line) ==
    LET it == Split(line) IN
    IF Len(it) < 3 THEN [st EXCEPT !.err = TRUE]
    ELSE
    LET c == PySliceFrom(it[1], 21)
        d == PySlice(it[2], 0, -1)
        e == it[3]
        cls == Intern(Intern(Intern(st.classes, c), d), e)
        t == <<cls[c], cls[d], cls[e]>>
    IN  [st EXCEPT !.classes = cls,
                   !.data = IF IsBottom(e)
                            THEN AppendTo(@, "disjoint", t)
                            ELSE AppendTo(@, "nf2", t)]

\* branch line.startswith('ObjectSomeValuesFrom('): R some C SubClassOf D
ParseLeftExistential(st, line) ==
    LET it == Split(line) IN
    IF Len(it) < 3 THEN [st EXCEPT !.err = TRUE]
    ELSE
    LET r == PySliceFrom(it[1], 21)
        c == PySlice(it[2], 0, -1)
        d == it[3]
        cls == Intern(Intern(st.classes, c), d)
        rel == Intern(st.relations, r)
    IN  [st EXCEPT !.classes = cls, !.relations = rel,
                   !.data = AppendTo(@, "nf4", <<rel[r], cls[c], cls[d]>>)]

ParseRightExistentialSwapped(st, line) ==
    LET it == Split(line) IN
    IF Len(it) < 3 THEN [st EXCEPT !.err = TRUE]
    ELSE
    LET c == it[1]
        r == PySliceFrom(it[2], 21)
        d == PySlice(it[3], 0, -1)
        cls == Intern(Intern(st.classes, c), d)
        rel == Intern(st.relations, r)
    IN  [st EXCEPT !.classes = cls, !.relations = rel,
                   !.data = AppendTo(@, "nf4", <<rel[r], cls[c], cls[d]>>)]

\* branch line.find('ObjectSomeValuesFrom') != -1: C SubClassOf R some D
ParseRightExistential(st, line) ==
    LET it == Split(line) IN
    IF Len(it) < 3 THEN [st EXCEPT !.err = TRUE]
    ELSE
    LET c == it[1]
        r == PySliceFrom(it[2], 21)
        d == PySlice(it[3], 0, -1)
        cls == Intern(Intern(st.classes, c), d)
        rel == Intern(st.relations, r)
    IN  [st EXCEPT !.classes = cls, !.relations = rel,
                   !.data = AppendTo(@, "nf3", <<cls[c], rel[r], cls[d]>>)]

\* the else branch: C SubClassOf D
ParsePlain(st, line) ==
    LET it == Split(line) IN
    IF Len(it) < 2 THEN [st EXCEPT !.err = TRUE]
    ELSE
    LET c == it[1]
        d == it[2]
        cls == Intern(Intern(st.classes, c), d)
    IN  [st EXCEPT !.classes = cls,
                   !.data = AppendTo(@, "nf1", <<cls[c], cls[d]>>)]

\* one iteration of `for line in f`
ParseLine(st, raw) ==
    LET line == Unwrap(raw) IN
    IF line = EmptyStr THEN st
    ELSE IF StartsWith(line, StrIntersectionOf)
         THEN ParseIntersection(st, line)
    ELSE IF StartsWith(line, StrSomeValuesFromOpen)
         THEN ParseLeftExistential(st, line)
    ELSE IF Contains(line, StrSomeValuesFrom)
         THEN ParseRightExistential(st, line)
    ELSE ParsePlain(st, line)

\* the loop over the lines of the file; it stops at the line that raises
RECURSIVE ParseFrom(_, _, _)
ParseFrom(st, f, i) ==
    IF i > Len(f) \/ st.err THEN st
    ELSE ParseFrom(ParseLine(st, f[i]), f, i + 1)

load_data(f) == ParseFrom(InitParse, f, 1)

\* data[g].shape[0] after np.array(data[g]), which is len(data[g])
Rows(dt, g) == Len(dt[g])

-----------------------------------------------------------------------------
(* Input lines *)

\* the identifiers A, B (classes), R, S (relations)
IdA == <<65>>
IdB == <<66>>
IdR == <<82>>
IdS == <<83>>

ClassIds == {IdA, IdB, StrOwlNothing}
RelIds == {IdR, IdS}

\* 'SubClassOf('
StrSubClassOf ==
    <<83, 117, 98, 67, 108, 97, 115, 115, 79, 102, 40>>

\* ' ', ')' and the end of a line
StrSpace == <<32>>
StrClose == <<41>>
StrNewline == <<10>>

\* SubClassOf(c d)
PlainLine(c, d) ==
    StrSubClassOf \o c \o StrSpace \o d \o StrClose \o StrNewline
\* SubClassOf(ObjectIntersectionOf(c d) e)
IntersectionLine(c, d, e) ==
    StrSubClassOf \o StrIntersectionOf \o c \o StrSpace \o d \o StrClose
    \o StrSpace \o e \o StrClose \o StrNewline
\* SubClassOf(c ObjectSomeValuesFrom(r d))
RightExistentialLine(c, r, d) ==
    StrSubClassOf \o c \o StrSpace \o StrSomeValuesFromOpen \o r \o StrSpace
    \o d \o StrClose \o StrClose \o StrNewline
\* SubClassOf(ObjectSomeValuesFrom(r c) d)
LeftExistentialLine(r, c, d) ==
    StrSubClassOf \o StrSomeValuesFromOpen \o r \o StrSpace \o c \o StrClose
    \o StrSpace \o d \o StrClose \o StrNewline

\* lines that are empty once the wrapper is cut off: a blank line and
\* SubClassOf()
EmptyLines == {StrNewline, StrSubClassOf \o StrClose \o StrNewline}

\* SubClassOf(A): a plain line with one token
LineOneToken == StrSubClassOf \o IdA \o StrClose \o StrNewline

\* SubClassOf(ObjectIntersectionOf(A B)): an intersection with two tokens
LineTwoTokens ==
    StrSubClassOf \o StrIntersectionOf \o IdA \o StrSpace \o IdB \o StrClose
    \o StrClose \o StrNewline

\* lines of a recognised shape with too few tokens: IndexError
ShortLines == {LineOneToken, LineTwoTokens}

\* two spaces of indentation
Indent == StrSpace \o StrSpace

WellFormedLines ==
    { PlainLine(IdA, IdB),
      PlainLine(StrOwlNothing, IdA),
      Indent \o PlainLine(IdB, IdA),
      IntersectionLine(IdA, IdB, StrOwlNothing),
      IntersectionLine(IdB, IdA, IdA),
      IntersectionLine(StrOwlNothing, IdA, IdB),
      RightExistentialLine(IdA, IdR, IdB),
      LeftExistentialLine(IdR, IdB, IdA),
      LeftExistentialLine(IdS, StrOwlNothing, IdB) }

Lines == WellFormedLines \cup EmptyLines \cup ShortLines

\* n copies of a line
RECURSIVE Rep(_, _)
Rep(l, n) == IF n = 0 THEN <<>> ELSE <<l>> \o Rep(l, n - 1)

\* a file with the given number of lines of each shape
TrainFile(n1, n2, n3, n4, n5) ==
    Rep(PlainLine(IdA, IdB), n1)
    \o Rep(IntersectionLine(IdB, IdA, IdA), n2)
    \o Rep(RightExistentialLine(IdA, IdR, IdB), n3)
    \o Rep(LeftExistentialLine(IdR, IdB, IdA), n4)
    \o Rep(IntersectionLine(IdA, IdB, StrOwlNothing), n5)

TrainFiles ==
    { TrainFile(n[1], n[2], n[3], n[4], n[5]) :
        n \in [1..5 -> 0..MaxRows] }
    \cup { <<PlainLine(IdA, IdB), LineOneToken>>,
           <<StrNewline, StrSubClassOf \o StrClose \o StrNewline>> }

BatchSizes == (1..MaxBatchSize) \cup {128, 256}

-----------------------------------------------------------------------------
(* The parser, one line at a time *)

\* a variable that holds no object yet
None == <<>>

ParserIdle ==
    /\ classes = EmptyDict /\ relations = EmptyDict /\ data = EmptyData

TrainIdle ==
    /\ batch_size = 0 /\ epochs = 0 /\ steps = 0 /\ gen = None
    /\ epoch = 0 /\ batch = 0 /\ batch_data = None
    /\ global_step = 0 /\ exports = <<>>

LossIdle == emb = None /\ loss_out = None

InitParser ==
    /\ pc = "parsing"
    /\ file = <<>>
    /\ ParserIdle
    /\ TrainIdle
    /\ LossIdle

\* the body of `for line in f` on the next line of the file
ReadLine(raw) ==
    /\ pc = "parsing"
    /\ Len(file) < MaxLines
    /\ LET st == ParseLine([classes |-> classes, relations |-> relations,
                            data |-> data, err |-> FALSE], raw)
       IN  /\ classes' = st.classes
           /\ relations' = st.relations
           /\ data' = st.data
           /\ pc' = IF st.err THEN "parse_error" ELSE "parsing"
    /\ file' = Append(file, raw)
    /\ UNCHANGED <<trainVars, lossVars>>

\* end of file: the lists become arrays and load_data returns
ParseReturn ==
    /\ pc = "parsing"
    /\ pc' = "parsed"
    /\ UNCHANGED <<parseVars, trainVars, lossVars>>

NextParser == (\E raw \in Lines : ReadLine(raw)) \/ ParseReturn

SpecParse == InitParser /\ [][NextParser]_vars

-----------------------------------------------------------------------------
(* Generator and the training loop of main *)

\* Generator.__init__: the default of its batch_size parameter
DefaultBatchSize == 128

\* int(math.ceil(nb_data / (1.0 * batch_size)))
CeilDiv(n, b) == (n + b - 1) \div b

RECURSIVE MaxRowsOf(_, _)
MaxRowsOf(dt, gs) ==
    IF gs = {} THEN 0
    ELSE LET g == CHOOSE x \in gs : TRUE
         IN  Max(Rows(dt, g), MaxRowsOf(dt, gs \ {g}))

\* nb_data: the largest len(val) over data.items()
NbData(dt) == MaxRowsOf(dt, Groups)

\* Generator(data, steps=steps): batch_size is left at its default
NewGenerator(st) ==
    [batch_size |-> DefaultBatchSize, steps |-> st, start |-> 0]

ChoiceNeverRaises(a, size) == FALSE

\* np.random.choice(a, size) raises ValueError on an empty population
ChoiceRaises(a, size) == a <= 0 /\ size # 0

\* the shapes of ((nf1, nf2, nf3, nf4, dis), labels) built by Generator.next:
\* each group is gathered at batch_size sampled row indices
BatchShapes(g) ==
    [rows |-> [grp \in Groups |-> g.batch_size],
     labels |-> <<g.batch_size, 1>>]

SaveEveryTenthOnly(e, n) == e % 10 = 0

\* epoch % 10 == 0 or epoch == epochs - 1
ShouldSave(e, n) == e % 10 = 0 \/ e = n - 1

\* {v: k for k, v in d.items()} read at 0..len(d)-1
NameList(d) ==
    [i \in 1..DictLen(d) |-> CHOOSE k \in DOMAIN d : d[k] = i - 1]

\* the two pickles written at a checkpoint; version is the number of
\* updates the exported tables have received
Checkpoint ==
    [epoch |-> epoch, version |-> global_step,
     cls_rows |-> DictLen(classes), rel_rows |-> DictLen(relations),
     cls_list |-> NameList(classes), rel_list |-> NameList(relations)]

Init ==
    /\ pc = "main"
    /\ file \in TrainFiles
    /\ batch_size \in BatchSizes
    /\ epochs \in 0..MaxEpochs
    /\ ParserIdle
    /\ steps = 0 /\ gen = None /\ epoch = 0 /\ batch = 0
    /\ batch_data = None /\ global_step = 0 /\ exports = <<>>
    /\ LossIdle

\* main up to the epoch loop: load_data, steps, the Generator
MainSetup ==
    /\ pc = "main"
    /\ LET st == load_data(file) IN
       /\ classes' = st.classes
       /\ relations' = st.relations
       /\ data' = st.data
       /\ IF st.err
          THEN /\ pc' = "parse_error"
               /\ UNCHANGED <<steps, gen>>
          ELSE /\ pc' = "epoch_loop"
               /\ steps' = CeilDiv(NbData(st.data), batch_size)
               /\ gen' = NewGenerator(CeilDiv(NbData(st.data), batch_size))
    /\ UNCHANGED <<file, batch_size, epochs, epoch, batch, batch_data,
                   global_step, exports, lossVars>>

\* for epoch in range(epochs): enter the next epoch or leave the loop
EpochBegin ==
    /\ pc = "epoch_loop"
    /\ IF epoch < epochs
       THEN pc' = "batch_loop" /\ batch' = 0
       ELSE pc' = "done" /\ UNCHANGED batch
    /\ UNCHANGED <<parseVars, batch_size, epochs, steps, gen, epoch,
                   batch_data, global_step, exports, lossVars>>

SomeChoiceRaises ==
    \E g \in Groups : ChoiceRaises(Rows(data, g), gen.batch_size)

\* Generator.next yields a batch and the loop body applies one update
TrainStep ==
    /\ pc = "batch_loop"
    /\ gen.start < gen.steps
    /\ ~SomeChoiceRaises
    /\ batch_data' = BatchShapes(gen)
    /\ gen' = [gen EXCEPT !.start = @ + 1]
    /\ global_step' = global_step + 1
    /\ batch' = batch + 1
    /\ UNCHANGED <<pc, parseVars, batch_size, epochs, steps, epoch, exports,
                   lossVars>>

\* Generator.next: np.random.choice raises, the exception leaves main
SampleFails ==
    /\ pc = "batch_loop"
    /\ gen.start < gen.steps
    /\ SomeChoiceRaises
    /\ pc' = "error"
    /\ UNCHANGED <<parseVars, trainVars, lossVars>>

\* Generator.next resets and raises StopIteration; main reports the epoch
\* (loss / steps) and saves the embeddings when the epoch is a checkpoint
EpochEnd ==
    /\ pc = "batch_loop"
    /\ gen.start >= gen.steps
    /\ steps # 0
    /\ gen' = [gen EXCEPT !.start = 0]
    /\ exports' = IF ShouldSave(epoch, epochs)
                  THEN Append(exports, Checkpoint)
                  ELSE exports
    /\ epoch' = epoch + 1
    /\ pc' = "epoch_loop"
    /\ UNCHANGED <<parseVars, batch_size, epochs, steps, batch, batch_data,
                   global_step, lossVars>>

\* Generator.next resets and raises StopIteration; with steps = 0 the report
\* of the epoch divides the float loss by zero: ZeroDivisionError leaves main
\* before the checkpoint test
EpochReportFails ==
    /\ pc = "batch_loop"
    /\ gen.start >= gen.steps
    /\ steps = 0
    /\ gen' = [gen EXCEPT !.start = 0]
    /\ pc' = "zero_division"
    /\ UNCHANGED <<parseVars, batch_size, epochs, steps, epoch, batch,
                   batch_data, global_step, exports, lossVars>>

Next ==
    \/ MainSetup \/ EpochBegin \/ TrainStep \/ SampleFails
    \/ EpochEnd \/ EpochReportFails

Spec == Init /\ [][Next]_vars

-----------------------------------------------------------------------------
(* ELModel.nf2_loss and ELModel.dis_loss on one row, embedding_size = 1 *)

\* dis_loss(self, input, margin=0.1), in fixed-point units
Margin == 2

\* fixed-point units to 1.0
Scale == 10 * Margin

Abs(x) == IF x < 0 THEN -x ELSE x

\* tf.nn.relu
Relu(x) == IF x > 0 THEN x ELSE 0

\* a class embedding row is <<centre, radius component>>
Centre(v) == v[1]
RadiusOf(v) == Abs(v[2])

\* tf.norm over the single centre coordinate
Norm(x) == Abs(x)

\* tf.abs(tf.norm(x, axis=1) - 1)
UnitReg(x) == Abs(Norm(x) - Scale)

\* rdst of nf2_loss; re is read from d
nf2_rdst(c, d, e) ==
    LET rc == RadiusOf(c)
        rd == RadiusOf(d)
        re == RadiusOf(d)
    IN  Relu(Max(rc, rd) - re)

nf2_loss(c, d, e) ==
    LET rc == RadiusOf(c)
        rd == RadiusOf(d)
        sr == rc + rd
        x1 == Centre(c)
        x2 == Centre(d)
        x3 == Centre(e)
        dst == Norm(x2 - x1)
        dst2 == Norm(x3 - x1)
        dst3 == Norm(x3 - x2)
        dst_loss == Relu(dst - sr) + Relu(dst2 - rc) + Relu(dst3 - rd)
                    + nf2_rdst(c, d, e)
        reg == UnitReg(x1) + UnitReg(x2) + UnitReg(x3)
    IN  dst_loss + reg

\* tf.nn.relu(sr - dst - margin) of dis_loss
dis_overlap(c, d) ==
    LET sr == RadiusOf(c) + RadiusOf(d)
        dst == Norm(Centre(d) - Centre(c))
    IN  Relu(sr - dst - Margin)

dis_loss(c, d) ==
    dis_overlap(c, d) + UnitReg(Centre(c)) + UnitReg(Centre(d))

Rows1 == (-MaxCoord..MaxCoord) \X (-MaxRad..MaxRad)

InitLoss ==
    /\ pc = "model"
    /\ emb \in [c : Rows1, d : Rows1, e : Rows1]
    /\ loss_out = None
    /\ file = <<>>
    /\ ParserIdle
    /\ TrainIdle

\* model.nf2_loss on the row (c, d, e)
CallNF2Loss ==
    /\ pc = "model"
    /\ loss_out' = [fn |-> "nf2",
                    term |-> nf2_rdst(emb.c, emb.d, emb.e),
                    loss |-> nf2_loss(emb.c, emb.d, emb.e)]
    /\ UNCHANGED <<pc, emb, parseVars, trainVars>>

\* model.dis_loss on the row (c, d, bottom)
CallDisLoss ==
    /\ pc = "model"
    /\ loss_out' = [fn |-> "dis",
                    term |-> dis_overlap(emb.c, emb.d),
                    loss |-> dis_loss(emb.c, emb.d)]
    /\ UNCHANGED <<pc, emb, parseVars, trainVars>>

NextLoss == CallNF2Loss \/ CallDisLoss

SpecLoss == InitLoss /\ [][NextLoss]_vars

-----------------------------------------------------------------------------
(* Properties of the training loop, checked under Spec *)

Parsed ==
    pc \in {"epoch_loop", "batch_loop", "done", "error", "zero_division"}

SomeGroupEmpty == \E g \in Groups : Rows(data, g) = 0
SomeGroupNonEmpty == \E g \in Groups : Rows(data, g) > 0

\* an epoch's iteration over the generator is over: by StopIteration (the
\* loop is back at its head) or by an exception
IterationOver ==
    \/ pc = "epoch_loop" /\ epoch > 0
    \/ pc \in {"error", "zero_division"}

\* C1 as stated: in every epoch the Generator yields exactly `steps` batches
\* and then raises StopIteration with start reset to 0, and
\* 0 <= start <= steps in every state.
C1_Original ==
    /\ gen # None => 0 <= gen.start /\ gen.start <= gen.steps
    /\ IterationOver => batch = gen.steps /\ gen.start = 0 /\ pc # "error"

\* C2 as stated: for any parsed file the run ends normally, after epochs
\* 0..epochs-1 with steps = ceil(max rows / batch_size) updates each.
C2_Original ==
    (Parsed /\ pc \in {"done", "error", "zero_division"}) =>
        /\ pc = "done"
        /\ epoch = epochs
        /\ global_step = epochs * CeilDiv(NbData(data), batch_size)

\* epochs finished so far at whose end a checkpoint is due
DueEpochs == {e \in 0..(epoch - 1) : e % 10 = 0 \/ e = epochs - 1}

\* C3: the tables are exported at the end of epoch e exactly when e is a
\* multiple of 10 or e = epochs - 1, each export holds the tables as they
\* are after that epoch's last update and covers all classes and relations,
\* and at the end of a run of one epoch or more the last export reflects the
\* final update.
C3_Exports ==
    Parsed =>
        /\ Len(exports) = Cardinality(DueEpochs)
        /\ \A i \in 1..Len(exports) :
              /\ exports[i].epoch \in DueEpochs
              /\ i > 1 => exports[i - 1].epoch < exports[i].epoch
              /\ exports[i].version = (exports[i].epoch + 1) * steps
              /\ exports[i].cls_rows = DictLen(classes)
              /\ exports[i].rel_rows = DictLen(relations)
              /\ Len(exports[i].cls_list) = DictLen(classes)
              /\ Len(exports[i].rel_list) = DictLen(relations)
              /\ \A k \in DOMAIN classes :
                    exports[i].cls_list[classes[k] + 1] = k
              /\ \A k \in DOMAIN relations :
                    exports[i].rel_list[relations[k] + 1] = k
        /\ (pc = "done" /\ epochs >= 1) =>
              /\ Len(exports) >= 1
              /\ exports[Len(exports)].version = global_step
              /\ exports[Len(exports)].epoch = epochs - 1

\* a run of 12 epochs has ended with exports after epochs 0, 10 and 11
C3_Witness ==
    /\ pc = "done" /\ epochs = 12 /\ Len(exports) = 3
    /\ steps >= 2 /\ global_step = 12 * steps
    /\ exports[2].epoch = 10 /\ exports[3].epoch = 11

\* C4 as stated: every batch yielded has first dimension --batch-size in
\* each of the five groups and labels of shape (batch_size, 1).
C4_Original ==
    batch_data # None =>
        /\ \A g \in Groups : batch_data.rows[g] = batch_size
        /\ batch_data.labels = <<batch_size, 1>>

\* C10: a batch is returned only when all five groups have a row; when some
\* group is empty and another is not, next raises before start is
\* incremented: no batch, no update and no export in that run, which never
\* ends normally unless it has no epoch to run.
C10_EmptyGroup ==
    /\ batch_data # None => ~SomeGroupEmpty
    /\ (Parsed /\ SomeGroupEmpty /\ SomeGroupNonEmpty) =>
          /\ batch_data = None
          /\ gen.start = 0
          /\ global_step = 0
          /\ exports = <<>>
          /\ pc = "done" => epochs = 0
          /\ (pc = "batch_loop" /\ epoch = 0) => ENABLED SampleFails

\* the first call to next has raised in a run with empty and non-empty groups
C10_Witness ==
    /\ pc = "error" /\ SomeGroupEmpty /\ SomeGroupNonEmpty
    /\ gen.start = 0 /\ gen.steps >= 1 /\ epochs >= 1

-----------------------------------------------------------------------------
(* Properties of the parser, checked under SpecParse *)

Range(sq) == {sq[i] : i \in 1..Len(sq)}

ClassIndices == 0..(DictLen(classes) - 1)
RelIndices == 0..(DictLen(relations) - 1)

Bijective(d) ==
    /\ \A k \in DOMAIN d : d[k] \in 0..(DictLen(d) - 1)
    /\ \A k1, k2 \in DOMAIN d : d[k1] = d[k2] => k1 = k2

MapsAndTuplesSound ==
    /\ Bijective(classes)
    /\ Bijective(relations)
    /\ \A t \in Range(data.nf1) : t[1] \in ClassIndices /\ t[2] \in ClassIndices
    /\ \A t \in Range(data.nf2) \cup Range(data.disjoint) :
          t[1] \in ClassIndices /\ t[2] \in ClassIndices /\ t[3] \in ClassIndices
    /\ \A t \in Range(data.nf3) :
          t[1] \in ClassIndices /\ t[2] \in RelIndices /\ t[3] \in ClassIndices
    /\ \A t \in Range(data.nf4) :
          t[1] \in RelIndices /\ t[2] \in ClassIndices /\ t[3] \in ClassIndices

\* an index, once assigned, stays; new identifiers get the following indices
FirstSeenOrder(d, dNext) ==
    /\ \A k \in DOMAIN d : k \in DOMAIN dNext /\ dNext[k] = d[k]
    /\ \A k \in DOMAIN dNext \ DOMAIN d : dNext[k] >= DictLen(d)

\* C5: after any sequence of lines both maps are bijections onto 0..count-1,
\* indices are assigned in first-seen order and never change, and every
\* index stored in a tuple is within range of its map.
C5_Maps ==
    /\ [](MapsAndTuplesSound)
    /\ [][FirstSeenOrder(classes, classes')
          /\ FirstSeenOrder(relations, relations')]_vars

\* all three class identifiers and both relations are mapped after a parse
C5_Witness ==
    /\ pc = "parsed"
    /\ DOMAIN classes = ClassIds /\ DOMAIN relations = RelIds
    /\ classes[StrOwlNothing] = 0
    /\ Len(data.nf4) >= 1 /\ Len(data.nf3) >= 1

Padded(l) == {l, Indent \o l}

\* the line just read is raw
JustRead(raw) == file' = Append(file, raw)

OthersUnchanged(gs) == \A g \in Groups \ gs : data'[g] = data[g]

\* C6: an intersection line goes to disjoint and not to nf2 when its
\* right-hand side is owl:Nothing, to nf2 and not to disjoint otherwise; no
\* nf2 tuple has the bottom concept as third component and every disjoint
\* tuple has it.
C6_Routing ==
    /\ [](/\ \A t \in Range(data.disjoint) :
               StrOwlNothing \in DOMAIN classes
               /\ t[3] = classes[StrOwlNothing]
          /\ \A t \in Range(data.nf2) :
               StrOwlNothing \in DOMAIN classes
               => t[3] # classes[StrOwlNothing])
    /\ [][\A c, d, e \in ClassIds :
            JustRead(IntersectionLine(c, d, e)) =>
              LET t == <<classes'[c], classes'[d], classes'[e]>> IN
              IF e = StrOwlNothing
              THEN /\ data'.disjoint = Append(data.disjoint, t)
                   /\ data'.nf2 = data.nf2
              ELSE /\ data'.nf2 = Append(data.nf2, t)
                   /\ data'.disjoint = data.disjoint]_vars

\* both kinds of intersection line have been parsed
C6_Witness ==
    /\ Len(data.disjoint) >= 1 /\ Len(data.nf2) >= 1
    /\ StrOwlNothing \in DOMAIN classes

PlainForms ==
    UNION {Padded(PlainLine(c, d)) : c \in ClassIds, d \in ClassIds}
RightForms ==
    {RightExistentialLine(c, r, d) : c \in ClassIds, r \in RelIds, d \in ClassIds}
LeftForms ==
    {LeftExistentialLine(r, c, d) : r \in RelIds, c \in ClassIds, d \in ClassIds}
BottomForms ==
    {IntersectionLine(c, d, StrOwlNothing) : c \in ClassIds, d \in ClassIds}
IntersectionForms ==
    {IntersectionLine(c, d, e) : c \in ClassIds, d \in ClassIds,
                                 e \in ClassIds \ {StrOwlNothing}}

Count(f, S) == Cardinality({i \in 1..Len(f) : f[i] \in S})

\* C7: a well-formed line adds one tuple to the group of its shape and
\* leaves the other groups alone: plain -> nf1 (C, D), right existential ->
\* nf3 (C, R, D), left existential -> nf4 (R, C, D), intersection -> nf2 or
\* disjoint; lines that are empty without the wrapper add nothing; so the
\* row counts are the numbers of lines of each shape.
C7_Shapes ==
    /\ [](/\ Len(data.nf1) = Count(file, PlainForms)
          /\ Len(data.nf2) = Count(file, IntersectionForms)
          /\ Len(data.nf3) = Count(file, RightForms)
          /\ Len(data.nf4) = Count(file, LeftForms)
          /\ Len(data.disjoint) = Count(file, BottomForms))
    /\ [][/\ \A c, d \in ClassIds : \A raw \in Padded(PlainLine(c, d)) :
               JustRead(raw) =>
                 /\ data'.nf1 = Append(data.nf1, <<classes'[c], classes'[d]>>)
                 /\ OthersUnchanged({"nf1"})
          /\ \A c, d \in ClassIds : \A r \in RelIds :
               JustRead(RightExistentialLine(c, r, d)) =>
                 /\ data'.nf3 = Append(data.nf3,
                                  <<classes'[c], relations'[r], classes'[d]>>)
                 /\ OthersUnchanged({"nf3"})
          /\ \A c, d \in ClassIds : \A r \in RelIds :
               JustRead(LeftExistentialLine(r, c, d)) =>
                 /\ data'.nf4 = Append(data.nf4,
                                  <<relations'[r], classes'[c], classes'[d]>>)
                 /\ OthersUnchanged({"nf4"})
          /\ \A c, d, e \in ClassIds :
               JustRead(IntersectionLine(c, d, e)) =>
                 /\ OthersUnchanged({"nf2", "disjoint"})
                 /\ Len(data'.nf2) + Len(data'.disjoint)
                      = Len(data.nf2) + Len(data.disjoint) + 1
          /\ \A raw \in EmptyLines :
               JustRead(raw) => UNCHANGED <<classes, relations, data>>]_vars

\* the four-line file: one plain, one intersection-to-bottom, one right and
\* one left existential line
C7_Witness ==
    /\ pc = "parsed" /\ Len(file) = 4
    /\ Count(file, PlainForms) = 1 /\ Count(file, BottomForms) = 1
    /\ Count(file, RightForms) = 1 /\ Count(file, LeftForms) = 1
    /\ Len(data.nf1) = 1 /\ Len(data.nf2) = 0 /\ Len(data.nf3) = 1
    /\ Len(data.nf4) = 1 /\ Len(data.disjoint) = 1

-----------------------------------------------------------------------------
(* Properties of the loss terms, checked under SpecLoss *)

\* C8 as stated: the overlap term of dis_loss is 0 whenever
\* dist >= rc + rd + margin and strictly positive whenever dist < rc + rd.
C8_Original ==
    (loss_out # None /\ loss_out.fn = "dis") =>
        LET rc == Abs(emb.c[2])
            rd == Abs(emb.d[2])
            dist == Abs(emb.d[1] - emb.c[1])
        IN  /\ dist >= rc + rd + Margin => loss_out.term = 0
            /\ dist < rc + rd => loss_out.term > 0

\* C9 as stated: the containment-consistency term of nf2_loss is
\* relu(max(rc, rd) - re) with re the radius of E, positive exactly when
\* E's radius is smaller than the larger of C's and D's.
C9_Original ==
    (loss_out # None /\ loss_out.fn = "nf2") =>
        LET rc == Abs(emb.c[2])
            rd == Abs(emb.d[2])
            re == Abs(emb.e[2])
        IN  /\ loss_out.term = Relu(Max(rc, rd) - re)
            /\ loss_out.term > 0 <=> re < Max(rc, rd)

====
